---- MODULE Spec2Model ----
(***************************************************************************)
(* Model of the case store and the three workflow tools of                 *)
(* backend/src/fraud_agent.py: _read_db, _write_db, load_case,             *)
(* verify_answer and update_case, over a file system with a canonical      *)
(* document (DB_PATH) and one shared temporary path (DB_PATH + ".tmp").    *)
(***************************************************************************)
EXTENDS Integers, Sequences, FiniteSets, TLC

(***************************************************************************)
(* Bounds of the model.                                                    *)
(***************************************************************************)
\* longest initial store (number of elements of the persisted sequence)
MaxRecs == 2
\* an update is started only while the persisted histories hold fewer entries
MaxHist == 2

(***************************************************************************)
(* Strings are sequences of characters; str.lower() and str.strip() are    *)
(* computed character by character.                                        *)
(***************************************************************************)
IsSpace(c) == c = " "

LowerChar(c) ==
  CASE c = "A" -> "a"
    [] c = "B" -> "b"
    [] c = "X" -> "x"
    [] c = "Y" -> "y"
    [] OTHER -> c

Lower(s) == [i \in 1..Len(s) |-> LowerChar(s[i])]

RECURSIVE LStrip(_)
LStrip(s) ==
  IF s # <<>> /\ IsSpace(Head(s)) THEN LStrip(Tail(s)) ELSE s

RECURSIVE RStrip(_)
RStrip(s) ==
  IF s # <<>> /\ IsSpace(s[Len(s)]) THEN RStrip(SubSeq(s, 1, Len(s) - 1)) ELSE s

Strip(s) == RStrip(LStrip(s))

(***************************************************************************)
(* JSON values.  A field value is a string, null, a number or missing; a   *)
(* history is a list of entries, null, a string or missing; an element of  *)
(* the top-level sequence is an object (a case record) or a number.        *)
(***************************************************************************)
Str(s)  == [k |-> "str", s |-> s]
Null    == [k |-> "null", s |-> <<>>]
Num     == [k |-> "num", s |-> <<>>]
Missing == [k |-> "missing", s |-> <<>>]

HList(h) == [k |-> "list", h |-> h]
HNull    == [k |-> "null", h |-> <<>>]
HStr     == [k |-> "str", h |-> <<>>]
HMissing == [k |-> "missing", h |-> <<>>]

Obj(u, a, st, h, amt) ==
  [k |-> "obj", userName |-> u, securityAnswer |-> a, status |-> st,
   history |-> h, amount |-> amt]
NumElem == [k |-> "num"]
NoCase  == [k |-> "none"]

\* x or "" for an argument or a field value read with a None default
OrEmpty(v) == IF v.k = "str" THEN v.s ELSE <<>>

\* (x or "").strip().lower()
Normalize(v) == Lower(Strip(OrEmpty(v)))

(***************************************************************************)
(* The document text: json.dump emits the sequence as chunks "[", element, *)
(* ",", element, ..., "]"; a file holds a sequence of such chunks, with    *)
(* "nul" where a write beyond the end of a truncated file left a hole.     *)
(***************************************************************************)
Tok(t)  == [t |-> t, v |-> NoCase]
El(v)   == [t |-> "el", v |-> v]

\* json.dump(data, f, indent=2, ensure_ascii=False) of a list
Serialize(data) ==
  IF data = <<>> THEN <<Tok("lb"), Tok("rb")>>
  ELSE [i \in 1..(2 * Len(data) + 1) |->
          IF i = 1 THEN Tok("lb")
          ELSE IF i = 2 * Len(data) + 1 THEN Tok("rb")
          ELSE IF i % 2 = 0 THEN El(data[i \div 2])
          ELSE Tok("comma")]

\* the text is one complete JSON array
IsArrayText(toks) ==
  /\ Len(toks) >= 2
  /\ toks[1].t = "lb"
  /\ toks[Len(toks)].t = "rb"
  /\ \/ Len(toks) = 2
     \/ /\ Len(toks) % 2 = 1
        /\ \A i \in 2..(Len(toks) - 1) :
             toks[i].t = (IF i % 2 = 0 THEN "el" ELSE "comma")

\* json.load(f): the parsed value, or a JSONDecodeError
JsonLoad(toks) ==
  IF IsArrayText(toks)
    THEN [ok |-> TRUE, list |-> TRUE,
          val |-> [i \in 1..((Len(toks) - 1) \div 2) |-> toks[2 * i].v]]
  ELSE IF Len(toks) = 1 /\ toks[1].t = "el"
    THEN [ok |-> TRUE, list |-> FALSE, val |-> <<toks[1].v>>]
  ELSE [ok |-> FALSE, list |-> FALSE, val |-> <<>>]

(***************************************************************************)
(* A path of the file system holds no file, a regular file, or something   *)
(* that exists and cannot be opened for reading.                           *)
(***************************************************************************)
Absent      == [k |-> "absent", toks |-> <<>>]
Unreadable  == [k |-> "unreadable", toks |-> <<>>]
File(toks)  == [k |-> "file", toks |-> toks]

\* _read_db without the isinstance(data, list) test
ReadDbOf_NoListCheck(f) ==
  IF f.k = "absent" THEN <<>>
  ELSE IF f.k = "unreadable" THEN <<>>
  ELSE LET j == JsonLoad(f.toks)
       IN  IF j.ok THEN j.val ELSE <<>>

\* _read_db on the canonical path holding f
ReadDbOf(f) ==
  IF f.k = "absent" THEN <<>>
  ELSE IF f.k = "unreadable" THEN <<>>
  ELSE LET j == JsonLoad(f.toks)
       IN  IF j.ok /\ j.list THEN j.val ELSE <<>>

(***************************************************************************)
(* The scan shared by load_case and update_case.                           *)
(***************************************************************************)
\* c.get("userName", "").lower() == userName : "yes", "no", or "raise" when
\* c has no get (not an object) or the value has no lower (null, number)
NameTest(c, u) ==
  IF c.k # "obj" THEN "raise"
  ELSE IF c.userName.k = "missing" THEN (IF u = <<>> THEN "yes" ELSE "no")
  ELSE IF c.userName.k = "str"
    THEN (IF Lower(c.userName.s) = u THEN "yes" ELSE "no")
  ELSE "raise"

\* for case in cases: if <NameTest>: ... ; the first index that matches or raises
RECURSIVE ScanFrom(_, _, _)
ScanFrom(cases, u, i) ==
  IF i > Len(cases) THEN [res |-> "none", i |-> 0]
  ELSE LET m == NameTest(cases[i], u)
       IN  IF m = "raise" THEN [res |-> "raise", i |-> i]
           ELSE IF m = "yes" THEN [res |-> "found", i |-> i]
           ELSE ScanFrom(cases, u, i + 1)

Scan(cases, u) == ScanFrom(cases, u, 1)

(***************************************************************************)
(* Results of the tools.                                                   *)
(***************************************************************************)
DB_PATH == "fraud_cases.json"

Ret(tag, c, loc) == [tag |-> tag, case |-> c, loc |-> loc]
RetIdle     == Ret("idle", NoCase, "")
RetNone     == Ret("none", NoCase, "")
RetCase(c)  == Ret("case", c, "")
RetBool(b)  == Ret(IF b THEN "true" ELSE "false", NoCase, "")
RetRaised   == Ret("raised", NoCase, "")
RetSaved    == Ret("saved", NoCase, DB_PATH)
RetNotFound == Ret("error:not_found", NoCase, "")

\* load_case(ctx, userName) with the canonical path holding f
LoadCase(f, userName) ==
  LET u == Normalize(userName)
  IN  IF u = <<>> THEN RetNone
      ELSE LET cases == ReadDbOf(f)
               sc == Scan(cases, u)
           IN  IF sc.res = "found" THEN RetCase(cases[sc.i])
               ELSE IF sc.res = "raise" THEN RetRaised
               ELSE RetNone

\* verify_answer comparing the answer as given, not stripped
VerifyAnswer_NoStrip(f, userName, answer) ==
  LET r == LoadCase(f, userName)
  IN  IF r.tag = "raised" THEN RetRaised
      ELSE IF r.tag = "none" THEN RetBool(FALSE)
      ELSE IF r.case.securityAnswer.k = "num" THEN RetRaised
      ELSE RetBool(Lower(OrEmpty(answer)) = Normalize(r.case.securityAnswer))

\* verify_answer(ctx, userName, answer)
VerifyAnswer(f, userName, answer) ==
  LET r == LoadCase(f, userName)
  IN  IF r.tag = "raised" THEN RetRaised
      ELSE IF r.tag = "none" THEN RetBool(FALSE)
      ELSE IF r.case.securityAnswer.k = "num" THEN RetRaised
      ELSE RetBool(Normalize(answer) = Normalize(r.case.securityAnswer))

\* one history entry
Entry(ts, note) == [timestamp |-> ts, note |-> note]

\* the mutation with c["history"] = [e] in place of setdefault and append
Mutate_FreshHistory(c, status, e) ==
  IF c.history.k \in {"missing", "list"}
    THEN [ok |-> TRUE, c |-> [c EXCEPT !.status = status, !.history = HList(<<e>>)]]
  ELSE [ok |-> FALSE, c |-> c]

\* the mutation made idempotent: no entry appended when the record already has
\* this status and its last entry has this note
Mutate_Deduplicated(c, status, e) ==
  IF c.history.k = "missing"
    THEN [ok |-> TRUE, c |-> [c EXCEPT !.status = status, !.history = HList(<<e>>)]]
  ELSE IF c.history.k = "list"
    THEN [ok |-> TRUE,
          c |-> [c EXCEPT !.status = status,
                          !.history =
                            IF /\ c.status = status
                               /\ c.history.h # <<>>
                               /\ c.history.h[Len(c.history.h)].note = e.note
                              THEN c.history
                              ELSE HList(Append(c.history.h, e))]]
  ELSE [ok |-> FALSE, c |-> c]

\* c["status"] = status; c.setdefault("history", []); c["history"].append(e):
\* the mutated record, or "raise" when history has no append
Mutate(c, status, e) ==
  IF c.history.k = "missing"
    THEN [ok |-> TRUE, c |-> [c EXCEPT !.status = status, !.history = HList(<<e>>)]]
  ELSE IF c.history.k = "list"
    THEN [ok |-> TRUE,
          c |-> [c EXCEPT !.status = status,
                          !.history = HList(Append(c.history.h, e))]]
  ELSE [ok |-> FALSE, c |-> c]

\* update_case passing [c] to _write_db in place of cases
UpdatePlan_WritesMatchedOnly(f, userName, status, note, ts) ==
  LET u == Normalize(userName)
      cases == ReadDbOf(f)
      sc == Scan(cases, u)
  IN  IF sc.res = "raise" THEN [res |-> "raised", i |-> 0, data |-> <<>>]
      ELSE IF sc.res = "none" THEN [res |-> "error:not_found", i |-> 0, data |-> <<>>]
      ELSE LET m == Mutate(cases[sc.i], status, Entry(ts, note))
           IN  IF m.ok
                 THEN [res |-> "write", i |-> sc.i, data |-> <<m.c>>]
                 ELSE [res |-> "raised", i |-> 0, data |-> <<>>]

\* update_case with _write_db(cases) after the loop: it runs when nothing matched
UpdatePlan_WritesWhenNotFound(f, userName, status, note, ts) ==
  LET u == Normalize(userName)
      cases == ReadDbOf(f)
      sc == Scan(cases, u)
  IN  IF sc.res = "raise" THEN [res |-> "raised", i |-> 0, data |-> <<>>]
      ELSE IF sc.res = "none" THEN [res |-> "write", i |-> 0, data |-> cases]
      ELSE LET m == Mutate(cases[sc.i], status, Entry(ts, note))
           IN  IF m.ok
                 THEN [res |-> "write", i |-> sc.i,
                       data |-> [cases EXCEPT ![sc.i] = m.c]]
                 ELSE [res |-> "raised", i |-> 0, data |-> <<>>]

\* update_case creating the record when nothing matched (an upsert)
UpdatePlan_Upserts(f, userName, status, note, ts) ==
  LET u == Normalize(userName)
      cases == ReadDbOf(f)
      sc == Scan(cases, u)
  IN  IF sc.res = "raise" THEN [res |-> "raised", i |-> 0, data |-> <<>>]
      ELSE IF sc.res = "none"
        THEN [res |-> "write", i |-> Len(cases) + 1,
              data |-> Append(cases, Obj(Str(u), Null, status,
                                         HList(<<Entry(ts, note)>>), 0))]
      ELSE LET m == Mutate(cases[sc.i], status, Entry(ts, note))
           IN  IF m.ok
                 THEN [res |-> "write", i |-> sc.i,
                       data |-> [cases EXCEPT ![sc.i] = m.c]]
                 ELSE [res |-> "raised", i |-> 0, data |-> <<>>]

\* the read and the loop of update_case up to the call of _write_db:
\* "write" with the list to write, "error:not_found", or "raised"
UpdatePlan(f, userName, status, note, ts) ==
  LET u == Normalize(userName)
      cases == ReadDbOf(f)
      sc == Scan(cases, u)
  IN  IF sc.res = "raise" THEN [res |-> "raised", i |-> 0, data |-> <<>>]
      ELSE IF sc.res = "none" THEN [res |-> "error:not_found", i |-> 0, data |-> <<>>]
      ELSE LET m == Mutate(cases[sc.i], status, Entry(ts, note))
           IN  IF m.ok
                 THEN [res |-> "write", i |-> sc.i,
                       data |-> [cases EXCEPT ![sc.i] = m.c]]
                 ELSE [res |-> "raised", i |-> 0, data |-> <<>>]

(***************************************************************************)
(* State.                                                                  *)
(*   db, tmp   what DB_PATH and DB_PATH + ".tmp" hold                      *)
(*   pc        where each caller is: "idle" between calls, or inside the   *)
(*             _write_db of an update_case call                            *)
(*   data      the list the caller's _write_db is writing                  *)
(*   pos       the offset of the caller's open file, in chunks             *)
(*   fdAt      where the file the caller has open lives now: under the     *)
(*             temporary path, under the canonical path, or unlinked       *)
(*   ret       what the caller's last call returned                        *)
(*   logged    what _write_db logged during the caller's last call         *)
(*   call, pre the arguments of the caller's last call, and for an update  *)
(*             what DB_PATH held when it read and the index it matched     *)
(*   verif     per normalized identity, the best verify result so far      *)
(***************************************************************************)
VARIABLES db, tmp, pc, data, pos, fdAt, ret, logged, call, pre, verif

vars == <<db, tmp, pc, data, pos, fdAt, ret, logged, call, pre, verif>>

Procs == {1, 2}

CallOf(op, u, a, st, note) == [op |-> op, u |-> u, a |-> a, st |-> st, note |-> note]
NoCall == CallOf("none", Null, Null, "", "")
PreOf(f, i) == [db |-> f, i |-> i]
NoPre == PreOf(Absent, 0)

\* entries held by the histories of a list of elements
RECURSIVE HistTotal(_)
HistTotal(cases) ==
  IF cases = <<>> THEN 0
  ELSE (IF Head(cases).k = "obj" /\ Head(cases).history.k = "list"
          THEN Len(Head(cases).history.h) ELSE 0) + HistTotal(Tail(cases))

(***************************************************************************)
(* Inputs and initial documents.                                           *)
(***************************************************************************)
IdArgs   == {Str(<<"a">>), Str(<<" ", "A">>), Str(<<" ">>), Null}
AnsArgs  == {Str(<<"x">>), Str(<<"X", " ">>), Null}
\* (status, outcomeNote) pairs: a status of the workflow and an arbitrary string
StatusNotes ==
  { <<"confirmed_safe", "n1">>, <<"confirmed_safe", "n2">>, <<"not a status", "n2">> }
Times    == {1}

CaseA  == Obj(Str(<<"A">>), Str(<<" ", "X">>), "pending", HList(<<>>), 10)
CaseA2 == Obj(Str(<<"a">>), Str(<<"y">>), "pending", HMissing, 20)
CaseAs == Obj(Str(<<"a", " ">>), Str(<<"x">>), "pending", HMissing, 30)
CaseB  == Obj(Str(<<"b">>), Str(<<"y">>), "pending", HList(<<>>), 40)
CaseE  == Obj(Str(<<>>), Str(<<"x">>), "pending", HList(<<>>), 90)

\* records of the data model: userName and securityAnswer are strings,
\* history is a list or not there yet
TypedElems == {CaseA, CaseA2, CaseAs}

\* elements outside the data model
OddElems ==
  { NumElem,
    Obj(Null, Str(<<"x">>), "pending", HList(<<>>), 50),
    Obj(Missing, Missing, "pending", HList(<<>>), 60),
    Obj(Str(<<"a">>), Null, "pending", HNull, 70),
    Obj(Str(<<"a">>), Num, "pending", HStr, 80) }

SeqsUpTo(S, n) == UNION { [1..m -> S] : m \in 0..n }

\* s with x put before position i
InsertAt(s, i, x) == SubSeq(s, 1, i - 1) \o <<x>> \o SubSeq(s, i, Len(s))

\* the stores of at most MaxRecs elements with at most one odd element
TypedStores == SeqsUpTo(TypedElems, MaxRecs)
OddStores ==
  UNION { { InsertAt(st, i, o) : i \in 1..(Len(st) + 1), o \in OddElems } :
            st \in SeqsUpTo(TypedElems, MaxRecs - 1) }

\* documents that are not a JSON array: empty, a scalar, a map, a torn array
BadTexts ==
  { <<>>, <<El(NumElem)>>, <<El(CaseA)>>, <<Tok("lb"), El(CaseA)>>,
    <<Tok("lb"), El(CaseA), Tok("nul"), Tok("rb")>> }

SeqDocs ==
  {Absent, Unreadable}
    \cup { File(t) : t \in BadTexts }
    \cup { File(Serialize(st)) : st \in TypedStores \cup OddStores }

\* the stores the interleaved callers start from
ConcDocs == { File(Serialize(st)) : st \in {<<CaseA>>, <<CaseA, CaseB>>} }

\* the normalized identities a caller can name
VerifIds == { Normalize(u) : u \in IdArgs }

InitWith(docs) ==
  /\ db \in docs
  /\ tmp = Absent
  /\ pc = [p \in Procs |-> "idle"]
  /\ data = [p \in Procs |-> <<>>]
  /\ pos = [p \in Procs |-> 0]
  /\ fdAt = [p \in Procs |-> "none"]
  /\ ret = [p \in Procs |-> RetIdle]
  /\ logged = [p \in Procs |-> "none"]
  /\ call = [p \in Procs |-> NoCall]
  /\ pre = [p \in Procs |-> NoPre]
  /\ verif = [u \in VerifIds |-> "none"]

Init == InitWith(ConcDocs)
InitSeq == InitWith(SeqDocs)

(***************************************************************************)
(* The tools.  load_case and verify_answer read once and compute; nothing  *)
(* they do after the read is visible to another caller.                    *)
(***************************************************************************)
Load(p, u) ==
  /\ pc[p] = "idle"
  /\ ret' = [ret EXCEPT ![p] = LoadCase(db, u)]
  /\ call' = [call EXCEPT ![p] = CallOf("load", u, Null, "", "")]
  /\ pre' = [pre EXCEPT ![p] = NoPre]
  /\ logged' = [logged EXCEPT ![p] = "none"]
  /\ UNCHANGED <<db, tmp, pc, data, pos, fdAt, verif>>

\* verify_answer that records a failed verification in the matched case
VerifyCall_RecordsFailure(p, u, a) ==
  /\ pc[p] = "idle"
  /\ ret' = [ret EXCEPT ![p] = VerifyAnswer(db, u, a)]
  /\ call' = [call EXCEPT ![p] = CallOf("verify", u, a, "", "")]
  /\ pre' = [pre EXCEPT ![p] = NoPre]
  /\ logged' = [logged EXCEPT ![p] = "none"]
  /\ db' = IF VerifyAnswer(db, u, a).tag = "false" /\ LoadCase(db, u).tag = "case"
             THEN File(Serialize([ReadDbOf(db) EXCEPT
                    ![Scan(ReadDbOf(db), Normalize(u)).i].status = "verification_failed"]))
             ELSE db
  /\ UNCHANGED <<tmp, pc, data, pos, fdAt>>

VerifyCall(p, u, a) ==
  /\ pc[p] = "idle"
  /\ ret' = [ret EXCEPT ![p] = VerifyAnswer(db, u, a)]
  /\ call' = [call EXCEPT ![p] = CallOf("verify", u, a, "", "")]
  /\ pre' = [pre EXCEPT ![p] = NoPre]
  /\ logged' = [logged EXCEPT ![p] = "none"]
  /\ UNCHANGED <<db, tmp, pc, data, pos, fdAt>>

Verify(p, u, a) == VerifyCall(p, u, a) /\ UNCHANGED verif

\* update_case from its start to the call of _write_db, or to its return
\* when nothing matches or the loop raises
UpdateCase(p, u, st, note, ts) ==
  /\ pc[p] = "idle"
  /\ HistTotal(ReadDbOf(db)) < MaxHist
  /\ LET plan == UpdatePlan(db, u, st, note, ts)
     IN  /\ call' = [call EXCEPT ![p] = CallOf("update", u, Null, st, note)]
         /\ pre' = [pre EXCEPT ![p] = PreOf(db, plan.i)]
         /\ logged' = [logged EXCEPT ![p] = "none"]
         /\ IF plan.res = "write"
              THEN /\ pc' = [pc EXCEPT ![p] = "w_open"]
                   /\ data' = [data EXCEPT ![p] = plan.data]
                   /\ ret' = [ret EXCEPT ![p] = RetIdle]
              ELSE /\ ret' = [ret EXCEPT ![p] = Ret(plan.res, NoCase, "")]
                   /\ UNCHANGED <<pc, data>>
  /\ UNCHANGED <<db, tmp, pos, fdAt, verif>>

(***************************************************************************)
(* _write_db, one step per system call.                                    *)
(***************************************************************************)
\* the file content after writing chunk t at offset o: a write past the end
\* leaves a hole, a write inside the file overwrites
WriteAt(toks, o, t) ==
  IF o >= Len(toks)
    THEN toks \o [i \in 1..(o - Len(toks)) |-> Tok("nul")] \o <<t>>
    ELSE [toks EXCEPT ![o + 1] = t]

\* open(DB_PATH, "w"): the write goes straight to the canonical document
WriteOpen_InPlace(p) ==
  /\ pc[p] = "w_open"
  /\ db' = File(<<>>)
  /\ fdAt' = [fdAt EXCEPT ![p] = "db"]
  /\ pos' = [pos EXCEPT ![p] = 0]
  /\ pc' = [pc EXCEPT ![p] = "w_dump"]
  /\ UNCHANGED <<tmp, data, ret, logged, call, pre, verif>>

\* open(tmp_path, "w"): creates the temporary file or truncates the one there
WriteOpen(p) ==
  /\ pc[p] = "w_open"
  /\ tmp' = File(<<>>)
  /\ fdAt' = [fdAt EXCEPT ![p] = "tmp"]
  /\ pos' = [pos EXCEPT ![p] = 0]
  /\ pc' = [pc EXCEPT ![p] = "w_dump"]
  /\ UNCHANGED <<db, data, ret, logged, call, pre, verif>>

\* json.dump: the next chunk goes to the open file, wherever it lives now
WriteChunk(p) ==
  /\ pc[p] = "w_dump"
  /\ LET text == Serialize(data[p])
         t == text[pos[p] + 1]
     IN  /\ tmp' = IF fdAt[p] = "tmp" THEN File(WriteAt(tmp.toks, pos[p], t)) ELSE tmp
         /\ db' = IF fdAt[p] = "db" THEN File(WriteAt(db.toks, pos[p], t)) ELSE db
         /\ pos' = [pos EXCEPT ![p] = pos[p] + 1]
         /\ pc' = [pc EXCEPT ![p] = IF pos[p] + 1 = Len(text) THEN "w_close" ELSE "w_dump"]
  /\ UNCHANGED <<data, fdAt, ret, logged, call, pre, verif>>

\* leaving the with block closes the file
WriteClose(p) ==
  /\ pc[p] = "w_close"
  /\ fdAt' = [fdAt EXCEPT ![p] = "none"]
  /\ pc' = [pc EXCEPT ![p] = "w_replace"]
  /\ UNCHANGED <<db, tmp, data, pos, ret, logged, call, pre, verif>>

\* os.replace(DB_PATH, tmp_path): the arguments exchanged
WriteReplace_Exchanged(p) ==
  /\ pc[p] = "w_replace"
  /\ IF db.k = "file"
       THEN /\ tmp' = db
            /\ db' = Absent
            /\ fdAt' = [q \in Procs |->
                 IF fdAt[q] = "db" THEN "tmp"
                 ELSE IF fdAt[q] = "tmp" THEN "orphan"
                 ELSE fdAt[q]]
            /\ UNCHANGED logged
       ELSE /\ logged' = [logged EXCEPT ![p] = "enoent"]
            /\ UNCHANGED <<db, tmp, fdAt>>
  /\ pc' = [pc EXCEPT ![p] = "idle"]
  /\ data' = [data EXCEPT ![p] = <<>>]
  /\ pos' = [pos EXCEPT ![p] = 0]
  /\ ret' = [ret EXCEPT ![p] = RetSaved]
  /\ UNCHANGED <<call, pre, verif>>

\* os.replace(tmp_path, DB_PATH), then update_case returns; with no file
\* under the temporary path os.replace raises, which _write_db logs
WriteReplace(p) ==
  /\ pc[p] = "w_replace"
  /\ IF tmp.k = "file"
       THEN /\ db' = tmp
            /\ tmp' = Absent
            /\ fdAt' = [q \in Procs |->
                 IF fdAt[q] = "tmp" THEN "db"
                 ELSE IF fdAt[q] = "db" THEN "orphan"
                 ELSE fdAt[q]]
            /\ UNCHANGED logged
       ELSE /\ logged' = [logged EXCEPT ![p] = "enoent"]
            /\ UNCHANGED <<db, tmp, fdAt>>
  /\ pc' = [pc EXCEPT ![p] = "idle"]
  /\ data' = [data EXCEPT ![p] = <<>>]
  /\ pos' = [pos EXCEPT ![p] = 0]
  /\ ret' = [ret EXCEPT ![p] = RetSaved]
  /\ UNCHANGED <<call, pre, verif>>

\* open, json.dump, close or os.replace raises (disk full, permissions, I/O
\* error): except Exception logs it, and update_case returns as usual
WriteFail(p) ==
  /\ pc[p] \in {"w_open", "w_dump", "w_close", "w_replace"}
  /\ logged' = [logged EXCEPT ![p] = "fault"]
  /\ fdAt' = [fdAt EXCEPT ![p] = "none"]
  /\ pc' = [pc EXCEPT ![p] = "idle"]
  /\ data' = [data EXCEPT ![p] = <<>>]
  /\ pos' = [pos EXCEPT ![p] = 0]
  /\ ret' = [ret EXCEPT ![p] = RetSaved]
  /\ UNCHANGED <<db, tmp, call, pre, verif>>

(***************************************************************************)
(* Specifications.                                                         *)
(*   SpecSeq    one caller, one call at a time, any initial document, no   *)
(*              I/O failure while writing                                  *)
(*   SpecFault  one caller, one call at a time; open, json.dump, close and *)
(*              os.replace may raise                                       *)
(*   Spec       two callers (threads or processes) whose steps interleave  *)
(***************************************************************************)
SeqProcs == {1}

NextSeq ==
  \/ \E p \in SeqProcs, u \in IdArgs : Load(p, u)
  \/ \E p \in SeqProcs, u \in IdArgs, a \in AnsArgs : Verify(p, u, a)
  \/ \E p \in SeqProcs, u \in IdArgs, sn \in StatusNotes, ts \in Times :
       UpdateCase(p, u, sn[1], sn[2], ts)
  \/ \E p \in SeqProcs : WriteOpen(p)
  \/ \E p \in SeqProcs : WriteChunk(p)
  \/ \E p \in SeqProcs : WriteClose(p)
  \/ \E p \in SeqProcs : WriteReplace(p)

SpecSeq == InitSeq /\ [][NextSeq]_vars

FaultIds  == {Str(<<"a">>), Null}
FaultAnswers == {Str(<<"X", " ">>)}
FaultStatusNotes == { <<"confirmed_safe", "n1">>, <<"not a status", "n2">> }
FaultDocs == { File(Serialize(st)) : st \in SeqsUpTo({CaseA, CaseA2, CaseE}, MaxRecs) }

InitFault == InitWith(FaultDocs)

NextFault ==
  \/ \E p \in SeqProcs, u \in FaultIds : Load(p, u)
  \/ \E p \in SeqProcs, u \in FaultIds, a \in FaultAnswers : Verify(p, u, a)
  \/ \E p \in SeqProcs, u \in FaultIds, sn \in FaultStatusNotes, ts \in Times :
       UpdateCase(p, u, sn[1], sn[2], ts)
  \/ \E p \in SeqProcs : WriteOpen(p)
  \/ \E p \in SeqProcs : WriteChunk(p)
  \/ \E p \in SeqProcs : WriteClose(p)
  \/ \E p \in SeqProcs : WriteReplace(p)
  \/ \E p \in SeqProcs : WriteFail(p)

SpecFault == InitFault /\ [][NextFault]_vars

ConcIds      == {Str(<<"a">>), Str(<<"b">>)}
ConcReadIds  == {Str(<<"a">>)}
ConcAnswers  == {Str(<<"x">>)}
\* each caller closes its conversation with its own status and note
ConcStatusNote(p) ==
  IF p = 1 THEN <<"confirmed_safe", "n1">> ELSE <<"verification_failed", "n2">>

Next ==
  \/ \E p \in Procs, u \in ConcReadIds : Load(p, u)
  \/ \E p \in Procs, u \in ConcReadIds, a \in ConcAnswers : Verify(p, u, a)
  \/ \E p \in Procs, u \in ConcIds, ts \in Times :
       UpdateCase(p, u, ConcStatusNote(p)[1], ConcStatusNote(p)[2], ts)
  \/ \E p \in Procs : WriteOpen(p)
  \/ \E p \in Procs : WriteChunk(p)
  \/ \E p \in Procs : WriteClose(p)
  \/ \E p \in Procs : WriteReplace(p)

Spec == Init /\ [][Next]_vars

(***************************************************************************)
(* SpecLoop: the callers are coroutines of one single-threaded event loop. *)
(* A coroutine keeps the loop until it awaits or returns, and update_case, *)
(* load_case and verify_answer await nothing that suspends, so a caller    *)
(* takes a step only while no other caller is inside a call.               *)
(***************************************************************************)
\* callers are threads or processes: a step can be taken at any time
LoopFree_Preemptive(p) == TRUE

LoopFree(p) == \A q \in Procs \ {p} : pc[q] = "idle"

NextLoop ==
  \/ \E p \in Procs, u \in ConcReadIds : LoopFree(p) /\ Load(p, u)
  \/ \E p \in Procs, u \in ConcReadIds, a \in ConcAnswers : LoopFree(p) /\ Verify(p, u, a)
  \/ \E p \in Procs, u \in ConcIds, ts \in Times :
       LoopFree(p) /\ UpdateCase(p, u, ConcStatusNote(p)[1], ConcStatusNote(p)[2], ts)
  \/ \E p \in Procs : LoopFree(p) /\ WriteOpen(p)
  \/ \E p \in Procs : LoopFree(p) /\ WriteChunk(p)
  \/ \E p \in Procs : LoopFree(p) /\ WriteClose(p)
  \/ \E p \in Procs : LoopFree(p) /\ WriteReplace(p)

SpecLoop == Init /\ [][NextLoop]_vars

(***************************************************************************)
(* SpecOrder: SpecSeq on stores of the data model, with verif recording    *)
(* what verify_answer has returned for each normalized identity.           *)
(***************************************************************************)
Observed(old, tag) ==
  IF tag = "true" THEN "true"
  ELSE IF tag = "false" /\ old = "none" THEN "false"
  ELSE old

VerifyObserved(p, u, a) ==
  /\ VerifyCall(p, u, a)
  /\ verif' = [verif EXCEPT ![Normalize(u)] = Observed(@, ret'[p].tag)]

InitOrder == InitWith({ File(Serialize(st)) : st \in TypedStores })

NextOrder ==
  \/ \E p \in SeqProcs, u \in IdArgs : Load(p, u)
  \/ \E p \in SeqProcs, u \in IdArgs, a \in AnsArgs : VerifyObserved(p, u, a)
  \/ \E p \in SeqProcs, u \in IdArgs, sn \in StatusNotes, ts \in Times :
       UpdateCase(p, u, sn[1], sn[2], ts)
  \/ \E p \in SeqProcs : WriteOpen(p)
  \/ \E p \in SeqProcs : WriteChunk(p)
  \/ \E p \in SeqProcs : WriteClose(p)
  \/ \E p \in SeqProcs : WriteReplace(p)

SpecOrder == InitOrder /\ [][NextOrder]_vars

(***************************************************************************)
(* Vocabulary of the properties.                                           *)
(***************************************************************************)
\* the persisted sequence as a reader gets it now
Store == ReadDbOf(db)

\* the history of a record as a sequence (none yet: empty)
HistOf(c) == IF c.history.k = "list" THEN c.history.h ELSE <<>>

\* the caller is between calls and its last call was op
Returned(p, op) == pc[p] = "idle" /\ call[p].op = op

\* the text is the serialization of the sequence of its elements
ElemsOf(toks) == [i \in 1..((Len(toks) - 1) \div 2) |-> toks[2 * i].v]
IsSerialization(toks) == Len(toks) >= 2 /\ toks = Serialize(ElemsOf(toks))

\* every element is a record of the data model: userName and securityAnswer
\* strings, history a list or not there yet
DataModelStore(cases) ==
  \A i \in 1..Len(cases) :
    /\ cases[i].k = "obj"
    /\ cases[i].userName.k = "str"
    /\ cases[i].securityAnswer.k = "str"
    /\ cases[i].history.k \in {"list", "missing"}

WritePcs == {"w_open", "w_dump", "w_close", "w_replace"}

(***************************************************************************)
(* C1.  No lost update: once two concurrent update calls have both         *)
(* returned Saved (and no write of theirs raised), the persisted document  *)
(* holds the history entry of both, each in the record its call matched.   *)
(***************************************************************************)
SavedCleanly(p) ==
  Returned(p, "update") /\ ret[p].tag = "saved" /\ logged[p] = "none"

HasEntryOf(p) ==
  /\ pre[p].i \in 1..Len(Store)
  /\ \E k \in 1..Len(HistOf(Store[pre[p].i])) :
       HistOf(Store[pre[p].i])[k].note = call[p].note

C1_NoLostUpdate ==
  (\A p \in Procs : SavedCleanly(p)) => (\A p \in Procs : HasEntryOf(p))

(***************************************************************************)
(* C2.  The order load -> verify -> update is enforced: an update changes  *)
(* the persisted store only if verify returned a result for that identity  *)
(* before, and writes a confirmed_* status only if verify returned true.   *)
(***************************************************************************)
IsConfirmed(st) == st \in {"confirmed_safe", "confirmed_fraud"}

C2_OrderEnforced ==
  \A p \in SeqProcs :
    (call[p].op = "update" /\ db # pre[p].db) =>
      /\ verif[Normalize(call[p].u)] # "none"
      /\ IsConfirmed(call[p].st) => verif[Normalize(call[p].u)] = "true"

(***************************************************************************)
(* C3.  No torn document: whenever the canonical document changes, what it *)
(* holds afterwards is the complete serialization of the list passed to    *)
(* one of the _write_db calls in progress.                                 *)
(***************************************************************************)
C3_NoTornDocument ==
  [][db' # db =>
       \E p \in Procs : pc[p] \in WritePcs /\ db' = File(Serialize(data[p]))]_vars

(***************************************************************************)
(* C4.  Failure atomicity of _write_db: while a write is under way and not *)
(* yet replaced (so also if it is interrupted there), and after a write    *)
(* that raised in open, json.dump, close or os.replace, the canonical      *)
(* document is byte for byte the one the call started from, and _read_db   *)
(* returns the sequence it returned to that call.                          *)
(***************************************************************************)
C4_FailedWriteKeepsDocument ==
  \A p \in SeqProcs :
    (pc[p] \in WritePcs \/ logged[p] = "fault") =>
      /\ db = pre[p].db
      /\ Store = ReadDbOf(pre[p].db)

\* a write has failed after part of the text reached the temporary file
C4_Witness ==
  /\ logged[1] = "fault"
  /\ pc[1] = "idle"
  /\ tmp.k = "file"
  /\ tmp.toks # <<>>
  /\ ~IsSerialization(tmp.toks)
  /\ db = pre[1].db
  /\ Store # <<>>

(***************************************************************************)
(* C5.  When the store is unwritable during an update on a matching        *)
(* record, update does not return Saved: whenever _write_db logged a       *)
(* failure in a call, that call's outcome is not "saved".                  *)
(***************************************************************************)
C5_UnwritableIsNotSaved ==
  \A p \in SeqProcs :
    (Returned(p, "update") /\ logged[p] # "none") => ret[p].tag # "saved"

(***************************************************************************)
(* C6.  No error escapes the workflow: whatever the persisted document     *)
(* holds and whatever the arguments, load, verify and update return one of *)
(* their results and never raise.                                          *)
(***************************************************************************)
C6_NoErrorEscapes == \A p \in SeqProcs : ret[p].tag # "raised"

(***************************************************************************)
(* C7.  _read_db fails open: a canonical document that is missing,         *)
(* unreadable, not parseable or not a top-level sequence reads as the      *)
(* empty sequence (and the tools return not-found or false on it, raising  *)
(* nothing); any other document reads as the sequence it is the text of.   *)
(***************************************************************************)
BrokenDoc == db.k # "file" \/ ~IsSerialization(db.toks)

C7_ReadFailsOpen ==
  /\ BrokenDoc => Store = <<>>
  /\ ~BrokenDoc => Serialize(Store) = db.toks
  /\ \A p \in SeqProcs :
       (BrokenDoc /\ pc[p] = "idle" /\ call[p].op # "none") =>
         ret[p].tag \in {"none", "false", "error:not_found"}

\* verify_answer has run on a document holding a scalar or a map
C7_Witness ==
  /\ db.k = "file"
  /\ Len(db.toks) = 1
  /\ Returned(1, "verify")
  /\ Normalize(call[1].u) # <<>>
  /\ ret[1].tag = "false"

(***************************************************************************)
(* C8.  load(identity) returns the first record in scan order whose        *)
(* userName, trimmed and lowercased, equals the identity trimmed and       *)
(* lowercased, and not-found when there is none or the normalized identity *)
(* is empty (stores of records of the data model).                         *)
(***************************************************************************)
MinOf(S) == CHOOSE i \in S : \A j \in S : i <= j

FirstNormalizedMatch(cases, userName) ==
  LET n == Normalize(userName)
      M == { i \in 1..Len(cases) : Lower(Strip(cases[i].userName.s)) = n }
  IN  IF n = <<>> \/ M = {} THEN RetNone ELSE RetCase(cases[MinOf(M)])

C8_LoadMatchesNormalized ==
  \A p \in SeqProcs :
    (Returned(p, "load") /\ DataModelStore(Store)) =>
      ret[p] = FirstNormalizedMatch(Store, call[p].u)

(***************************************************************************)
(* C9.  verify(u, a) returns true iff load(u) finds a record and a,        *)
(* trimmed and lowercased, equals that record's securityAnswer trimmed and *)
(* lowercased; with no record found it returns false for every a (stores   *)
(* of records of the data model, and documents that read as empty).        *)
(***************************************************************************)
C9_VerifyIffAnswerMatches ==
  \A p \in SeqProcs :
    (Returned(p, "verify") /\ DataModelStore(Store)) =>
      LET r == LoadCase(db, call[p].u)
      IN  ret[p] = RetBool(/\ r.tag = "case"
                           /\ Lower(Strip(OrEmpty(call[p].a)))
                                = Lower(Strip(r.case.securityAnswer.s)))

\* verify returned true for an answer that differs from the stored one in
\* case and surrounding whitespace
C9_Witness ==
  /\ Returned(1, "verify")
  /\ DataModelStore(Store)
  /\ ret[1].tag = "true"
  /\ LoadCase(db, call[1].u).tag = "case"
  /\ call[1].a.s # LoadCase(db, call[1].u).case.securityAnswer.s
  /\ Lower(call[1].a.s) # Lower(LoadCase(db, call[1].u).case.securityAnswer.s)

(***************************************************************************)
(* C10.  update(u, status, note) on a store where a record matches u: the  *)
(* persisted record afterwards has the given status verbatim and the       *)
(* previous history followed by exactly one entry with the given note, the *)
(* outcome is Saved carrying the store location, and a load(u) started     *)
(* after the update returned sees the new status and history.              *)
(***************************************************************************)
\* the record the update matched, as it was read
OldCase(p) == ReadDbOf(pre[p].db)[pre[p].i]

RecordUpdated(p) ==
  LET i == pre[p].i
  IN  /\ i \in 1..Len(Store)
      /\ Store[i].status = call[p].st
      /\ Store[i].history.k = "list"
      /\ Len(HistOf(Store[i])) = Len(HistOf(OldCase(p))) + 1
      /\ SubSeq(HistOf(Store[i]), 1, Len(HistOf(OldCase(p)))) = HistOf(OldCase(p))
      /\ HistOf(Store[i])[Len(HistOf(Store[i]))].note = call[p].note

LoadSeesUpdate(p) == LoadCase(db, call[p].u) = RetCase(Store[pre[p].i])

FrameKept(p) ==
  LET old == ReadDbOf(pre[p].db)
      i == pre[p].i
  IN  /\ Len(Store) = Len(old)
      /\ \A j \in 1..Len(old) :
           IF j = i
             THEN [Store[j] EXCEPT !.status = old[j].status,
                                   !.history = old[j].history] = old[j]
             ELSE Store[j] = old[j]

C11_UpdateFrame ==
  \A p \in SeqProcs : SavedCleanly(p) => FrameKept(p)

\* the first of two records with the same lowercased userName was updated
C11_Witness ==
  /\ SavedCleanly(1)
  /\ Len(Store) = 2
  /\ pre[1].i = 1
  /\ DataModelStore(Store)
  /\ Lower(Store[2].userName.s) = Lower(Store[1].userName.s)
  /\ Store[1] # OldCase(1)
  /\ Store[2] = ReadDbOf(pre[1].db)[2]
  /\ Store[1].amount = OldCase(1).amount

(***************************************************************************)
(* C12.  update_case with no record matching: every step in which a caller *)
(* calls update_case on a document whose scan ends without a match returns *)
(* "error:not_found" in that step, starts no _write_db, and leaves the     *)
(* canonical document and the temporary path as they were.                 *)
(***************************************************************************)
C12_NotFoundWritesNothing ==
  [][\A p \in SeqProcs :
       ( /\ pc[p] = "idle"
         /\ call'[p].op = "update"
         /\ Scan(ReadDbOf(db), Normalize(call'[p].u)).res = "none" ) =>
           /\ ret'[p] = RetNotFound
           /\ pc'[p] = "idle"
           /\ db' = db
           /\ tmp' = tmp
           /\ fdAt' = fdAt]_vars

\* update_case returned not-found on a store that holds records
C12_Witness ==
  /\ Returned(1, "update")
  /\ ret[1] = RetNotFound
  /\ Normalize(call[1].u) # <<>>
  /\ Len(Store) > 0
  /\ db = pre[1].db
  /\ tmp = Absent

(***************************************************************************)
(* C13.  load_case and verify_answer have no side effects: a step in which *)
(* a caller calls either of them, on any document and with any arguments,  *)
(* leaves the canonical document and the temporary path as they were and   *)
(* starts no write, also when verify_answer returns false.                 *)
(***************************************************************************)
C13_ReadsHaveNoEffect ==
  [][\A p \in SeqProcs :
       (pc[p] = "idle" /\ call'[p].op \in {"load", "verify"}) =>
         /\ db' = db
         /\ tmp' = tmp
         /\ pc' = pc
         /\ fdAt' = fdAt]_vars

\* verify_answer returned false for a record that is there, which is still
\* pending and without history entries
C13_Witness ==
  /\ Returned(1, "verify")
  /\ ret[1].tag = "false"
  /\ LoadCase(db, call[1].u).tag = "case"
  /\ LoadCase(db, call[1].u).case.status = "pending"
  /\ HistOf(LoadCase(db, call[1].u).case) = <<>>

(***************************************************************************)
(* C14.  Histories are append-only in the persisted document: in every     *)
(* step, of calls made one at a time or interleaved, the history of each   *)
(* record the document held before the step is a prefix of the history of  *)
(* the record at that place after it.                                      *)
(***************************************************************************)
HistAt(cases, i) == IF cases[i].k = "obj" THEN HistOf(cases[i]) ELSE <<>>

IsPrefix(s, t) == Len(s) <= Len(t) /\ SubSeq(t, 1, Len(s)) = s

C14_HistoryAppendOnly ==
  [][\A i \in 1..Len(ReadDbOf(db)) :
       i <= Len(ReadDbOf(db')) =>
         IsPrefix(HistAt(ReadDbOf(db), i), HistAt(ReadDbOf(db'), i))]_vars

(***************************************************************************)
(* C15.  Not-found is terminal and the three tools agree on it: when       *)
(* load_case returns None for an identity on a document, verify_answer     *)
(* on that document returns false for it, and update_case on that document *)
(* returns "error:not_found" for it, starts no write and changes nothing.  *)
(***************************************************************************)
C15_NotFoundAgrees ==
  \A p \in SeqProcs :
    /\ (Returned(p, "verify") /\ LoadCase(db, call[p].u) = RetNone) =>
         ret[p] = RetBool(FALSE)
    /\ (call[p].op = "update" /\ LoadCase(pre[p].db, call[p].u) = RetNone) =>
         /\ pc[p] = "idle"
         /\ ret[p] = RetNotFound
         /\ db = pre[p].db

(***************************************************************************)
(* C16.  Records are never created or deleted: in every step, of calls     *)
(* made one at a time or interleaved, the persisted document holds the     *)
(* same number of records with the same userName values in the same order  *)
(* after the step as before it (and so the same as the initial document).  *)
(***************************************************************************)
NamesOf(cases) ==
  [i \in 1..Len(cases) |-> IF cases[i].k = "obj" THEN cases[i].userName ELSE Missing]

C16_RecordsKept ==
  [][NamesOf(ReadDbOf(db')) = NamesOf(ReadDbOf(db))]_vars

(***************************************************************************)
(* C17.  A repeated update is not deduplicated: when update_case has been  *)
(* written for a record whose status and last history entry were those of  *)
(* an earlier update_case with the same status and note, the history keeps *)
(* the earlier entries and ends with two entries carrying that note (one   *)
(* per call), and the status is the given one after the first call and     *)
(* after the second.                                                       *)
(***************************************************************************)
\* the call that has returned is the second of two updates of the matched
\* record with the same status and note: only update_case sets a status or
\* appends an entry, so the record it read shows the call before it
RepeatedUpdate(p) ==
  /\ SavedCleanly(p)
  /\ pre[p].i # 0
  /\ HistOf(OldCase(p)) # <<>>
  /\ OldCase(p).status = call[p].st
  /\ HistOf(OldCase(p))[Len(HistOf(OldCase(p)))].note = call[p].note

C17_RepeatAppendsTwice ==
  \A p \in SeqProcs :
    RepeatedUpdate(p) =>
      LET h == HistOf(Store[pre[p].i])
          hOld == HistOf(OldCase(p))
      IN  /\ Store[pre[p].i].status = call[p].st
          /\ Len(h) = Len(hOld) + 1
          /\ SubSeq(h, 1, Len(hOld)) = hOld
          /\ h[Len(h) - 1].note = call[p].note
          /\ h[Len(h)].note = call[p].note

\* the same update was made twice on a record without history entries
C17_Witness ==
  /\ RepeatedUpdate(1)
  /\ Len(HistOf(Store[pre[1].i])) = 2
  /\ HistOf(Store[pre[1].i])[1].note = HistOf(Store[pre[1].i])[2].note
  /\ Store[pre[1].i].status = "confirmed_safe"

(***************************************************************************)
(* C18.  Round trip of the store: when a _write_db that did not raise      *)
(* completes (open, every chunk of json.dump, close, os.replace), _read_db *)
(* on the canonical document returns the list that was passed to it, the   *)
(* same elements in the same order; the text of the empty list reads as    *)
(* the empty list.                                                         *)
(***************************************************************************)
RoundTrip(cases) == ReadDbOf(File(Serialize(cases))) = cases

C19_LoopSerializesUpdates ==
  /\ \A p \in Procs : \A q \in Procs \ {p} :
       ~(pc[p] \in WritePcs /\ pc[q] \in WritePcs)
  /\ \A p \in Procs : pc[p] \in WritePcs => db = pre[p].db
  /\ \A p \in Procs : SavedCleanly(p) => HasEntryOf(p)

\* both callers have updated the same record, one after the other, and the
\* record holds the entries of both
C19_Witness ==
  /\ SavedCleanly(1)
  /\ SavedCleanly(2)
  /\ pre[1].i = pre[2].i
  /\ pre[1].db # pre[2].db
  /\ Len(HistOf(Store[pre[1].i])) = 2
  /\ HasEntryOf(1)
  /\ HasEntryOf(2)

(***************************************************************************)
(* C20.  The fail-open read causes no data loss through update_case: when  *)
(* the canonical document is missing, unreadable, not parseable or not a   *)
(* top-level sequence at the moment update_case reads it, update_case      *)
(* returns "error:not_found", starts no write, and the canonical document  *)
(* stays what it was (it is not replaced by an empty or shorter sequence). *)
(***************************************************************************)
BrokenAt(f) == f.k # "file" \/ ~IsSerialization(f.toks)

C20_BrokenReadWritesNothing ==
  \A p \in SeqProcs :
    (call[p].op = "update" /\ BrokenAt(pre[p].db)) =>
      /\ pc[p] = "idle"
      /\ ret[p] = RetNotFound
      /\ db = pre[p].db
      /\ tmp = Absent

\* update_case has run on a torn array that still holds the text of a
\* record with the identity it was called with
C20_Witness ==
  /\ Returned(1, "update")
  /\ Normalize(call[1].u) = <<"a">>
  /\ db.k = "file"
  /\ Len(db.toks) = 4
  /\ db.toks[2] = El(CaseA)
  /\ ret[1] = RetNotFound
  /\ db = pre[1].db

====
